---------------------------- MODULE Spec2Model ----------------------------
(***************************************************************************)
(* Model of the base-checkin mini-app (src/unnamed/part_000, the revision  *)
(* the ledger code of src/game.js repeats verbatim): the persisted        *)
(* check-in ledger, the streak reducer, and the asynchronous connect /     *)
(* check-in / disconnect handlers that read and write it.                  *)
(*                                                                         *)
(* Dates.  The program keeps calendar dates as the strings produced by     *)
(* new Date().toISOString().split('T')[0], sorts them with the default     *)
(* (lexicographic) Array.prototype.sort and parses them back with          *)
(* new Date(str).  A date string is modelled as the tuple <<y, m, d>>;     *)
(* lexicographic order on fixed-width zero-padded fields is lexicographic  *)
(* order on the tuple.  The real-world clock is the number of whole days   *)
(* since 1970-01-01 (UTC).                                                 *)
(***************************************************************************)
EXTENDS Integers, Sequences, FiniteSets, Bags, TLC

\* ------------------------------------------------------------------ bounds
FirstDay == 19780      \* first real-world day of a run: 2024-02-27 (UTC)
MaxDay == 4            \* number of real-world days the clock ranges over
MaxLen == 3            \* longest date list handed to the streak harness
MaxInFlight == 2       \* handleCheckIn() invocations that may be pending at once
MaxCheckIns == 3       \* check-ins a run records or has pending, over all wallets

LastDay == FirstDay + MaxDay - 1
Days == FirstDay .. LastDay
\* inputs of the pure-function harness may lie one day outside the clock range
InputDays == (FirstDay - 1) .. (LastDay + 1)

\* ------------------------------------------------------- calendar dates
\* Date.prototype.toISOString().split('T')[0] of an instant on UTC day n
DateString(n) ==
  LET z   == n + 719468
      era == z \div 146097
      doe == z - era * 146097
      yoe == (doe - doe \div 1460 + doe \div 36524 - doe \div 146096) \div 365
      doy == doe - (365 * yoe + yoe \div 4 - yoe \div 100)
      mp  == (5 * doy + 2) \div 153
      d   == doy - (153 * mp + 2) \div 5 + 1
      m   == IF mp < 10 THEN mp + 3 ELSE mp - 9
      y   == yoe + era * 400 + (IF m <= 2 THEN 1 ELSE 0)
  IN  <<y, m, d>>

MsPerDay == 1000 * 60 * 60 * 24

\* new Date("YYYY-MM-DD") is the UTC midnight of that date; ParseDate gives the
\* number of whole days it lies after the epoch, its time value being exactly
\* ParseDate(s) * MsPerDay (a double holds it exactly)
\* mutant of ParseDate: every month counted as thirty days
ParseDateThirtyDayMonths(s) == s[1] * 360 + (s[2] - 1) * 30 + s[3] - 1

ParseDate(s) ==
  LET y   == IF s[2] <= 2 THEN s[1] - 1 ELSE s[1]
      era == y \div 400
      yoe == y - era * 400
      mp  == IF s[2] > 2 THEN s[2] - 3 ELSE s[2] + 9
      doy == (153 * mp + 2) \div 5 + s[3] - 1
      doe == yoe * 365 + yoe \div 4 - yoe \div 100 + doy
  IN  era * 146097 + doe - 719468

\* current - next of two Date objects, in milliseconds
DateDiffMs(current, next) == (ParseDate(current) - ParseDate(next)) * MsPerDay

\* string comparison of two date strings, as the default sort compares them
StrLess(a, b) ==
  \/ a[1] < b[1]
  \/ a[1] = b[1] /\ a[2] < b[2]
  \/ a[1] = b[1] /\ a[2] = b[2] /\ a[3] < b[3]

\* Array.prototype.includes
Includes(seq, x) == \E i \in DOMAIN seq : seq[i] = x

RECURSIVE InsertSorted(_, _)
InsertSorted(seq, x) ==
  IF seq = <<>> THEN <<x>>
  ELSE IF StrLess(x, Head(seq)) THEN <<x>> \o seq
       ELSE <<Head(seq)>> \o InsertSorted(Tail(seq), x)

\* Array.prototype.sort() with the default comparator
RECURSIVE SortAsc(_)
SortAsc(seq) ==
  IF seq = <<>> THEN <<>> ELSE InsertSorted(SortAsc(Tail(seq)), Head(seq))

\* Array.prototype.reverse()
Reverse(seq) == [i \in 1 .. Len(seq) |-> seq[Len(seq) + 1 - i]]

\* getTodayString() / getYesterdayString() read at real-world day now
getTodayString(now) == DateString(now)

\* setDate(getDate() - 1) on the local clock, then the UTC date of the result:
\* the previous UTC date, the browser's UTC offset being the same on both days
getYesterdayString(now) == DateString(now - 1)

\* mutant of StreakLoop: a gap is skipped (continue) instead of ending the count
RECURSIVE StreakLoopNoBreak(_, _, _)
StreakLoopNoBreak(sortedDates, i, streak) ==
  IF i >= Len(sortedDates) THEN streak
  ELSE LET diffDays == DateDiffMs(sortedDates[i], sortedDates[i + 1]) \div MsPerDay
       IN  IF diffDays = 1 THEN StreakLoopNoBreak(sortedDates, i + 1, streak + 1)
           ELSE StreakLoopNoBreak(sortedDates, i + 1, streak)

\* the for-loop of calculateStreak, from index i with the count so far
RECURSIVE StreakLoop(_, _, _)
StreakLoop(sortedDates, i, streak) ==
  IF i >= Len(sortedDates) THEN streak
  ELSE LET diffDays == DateDiffMs(sortedDates[i], sortedDates[i + 1]) \div MsPerDay
       IN  IF diffDays = 1 THEN StreakLoop(sortedDates, i + 1, streak + 1)
           ELSE streak

\* mutant of calculateStreak: the "streak is still active" test is missing
calculateStreakNoActiveTest(dates, now) ==
  IF Len(dates) = 0 THEN 0
  ELSE StreakLoop(Reverse(SortAsc(dates)), 1, 1)

calculateStreak(dates, now) ==
  IF Len(dates) = 0 THEN 0
  ELSE LET sortedDates == Reverse(SortAsc(dates))
       IN  IF sortedDates[1] # getTodayString(now)
              /\ sortedDates[1] # getYesterdayString(now)
           THEN 0
           ELSE StreakLoop(sortedDates, 1, 1)

\* ------------------------------------------------------ wallet addresses
\* An address is the list of its characters.  Two spellings of one account
\* (they differ in letter case only) and a second account.
Addresses == {<<"0", "x", "A">>, <<"0", "x", "a">>, <<"0", "x", "b">>}

\* what eth_requestAccounts may answer with, and what the host's user context
\* may name as the connected address
Accounts == {<<"0", "x", "A">>, <<"0", "x", "b">>}
ContextAddresses == {<<"0", "x", "a">>}

NoWallet == <<>>       \* null (falsy)
NoDate == <<>>         \* lastDate: null
NoSig == <<>>          \* no signature (null, undefined or empty)

LowerChar(c) == CASE c = "A" -> "a" [] c = "B" -> "b" [] OTHER -> c

\* String.prototype.toLowerCase
toLowerCase(str) == [i \in DOMAIN str |-> LowerChar(str[i])]

\* what localStorage.setItem keeps of a value: its string, "null" for null
StoredString(value) == IF value = NoWallet THEN <<"n", "u", "l", "l">> ELSE value

\* ------------------------------------------------------------ the ledger
\* localStorage[STORAGE_KEY], parsed: a map from key to record.  JSON.parse of
\* JSON.stringify is the identity on these values (arrays, numbers, strings,
\* null and plain objects).
DefaultRecord ==
  [dates |-> <<>>, streak |-> 0, total |-> 0, lastDate |-> NoDate, signatures |-> <<>>]

getUserData(allData, wallet) ==
  IF toLowerCase(wallet) \in DOMAIN allData
  THEN allData[toLowerCase(wallet)]
  ELSE DefaultRecord

\* the attestation message `Base Check-In | ${currentWallet} | ${today}`
Message(wallet, today) == [wallet |-> wallet, date |-> today]

\* A signature is opaque to the program; the model keeps, as its value, the
\* message the provider produced it over.
Sign(message) == <<message.wallet, message.date>>

\* mutants of saveCheckIn
\* ... the date is pushed without the includes() test
saveCheckInNoDedup(allData, wallet, date, signature, now) ==
  LET walletKey == toLowerCase(wallet)
      userData  == IF walletKey \in DOMAIN allData THEN allData[walletKey]
                   ELSE DefaultRecord
      dates1    == SortAsc(Append(userData.dates, date))
      saved     == [dates      |-> dates1,
                    streak     |-> calculateStreak(dates1, now),
                    total      |-> Len(dates1),
                    lastDate   |-> date,
                    signatures |-> (date :> signature) @@ userData.signatures]
  IN  (walletKey :> saved) @@ allData

\* ... the signature is filed under today's date, not under the date committed
saveCheckInSigToday(allData, wallet, date, signature, now) ==
  LET walletKey == toLowerCase(wallet)
      userData  == IF walletKey \in DOMAIN allData THEN allData[walletKey]
                   ELSE DefaultRecord
      dates1    == IF Includes(userData.dates, date) THEN userData.dates
                   ELSE SortAsc(Append(userData.dates, date))
      saved     == [dates      |-> dates1,
                    streak     |-> calculateStreak(dates1, now),
                    total      |-> Len(dates1),
                    lastDate   |-> date,
                    signatures |-> (getTodayString(now) :> signature) @@ userData.signatures]
  IN  (walletKey :> saved) @@ allData

\* ... the record is filed under the address as spelled, not lowercased
saveCheckInNoLower(allData, wallet, date, signature, now) ==
  LET walletKey == wallet
      userData  == IF walletKey \in DOMAIN allData THEN allData[walletKey]
                   ELSE DefaultRecord
      dates1    == IF Includes(userData.dates, date) THEN userData.dates
                   ELSE SortAsc(Append(userData.dates, date))
      saved     == [dates      |-> dates1,
                    streak     |-> calculateStreak(dates1, now),
                    total      |-> Len(dates1),
                    lastDate   |-> date,
                    signatures |-> (date :> signature) @@ userData.signatures]
  IN  (walletKey :> saved) @@ allData

\* ... the date is pushed and the list is left unsorted
saveCheckInNoSort(allData, wallet, date, signature, now) ==
  LET walletKey == toLowerCase(wallet)
      userData  == IF walletKey \in DOMAIN allData THEN allData[walletKey]
                   ELSE DefaultRecord
      dates1    == IF Includes(userData.dates, date) THEN userData.dates
                   ELSE Append(userData.dates, date)
      saved     == [dates      |-> dates1,
                    streak     |-> calculateStreak(dates1, now),
                    total      |-> Len(dates1),
                    lastDate   |-> date,
                    signatures |-> (date :> signature) @@ userData.signatures]
  IN  (walletKey :> saved) @@ allData

\* saveCheckIn(wallet, date, signature) at real-world day now: the new ledger
saveCheckIn(allData, wallet, date, signature, now) ==
  LET walletKey == toLowerCase(wallet)
      userData  == IF walletKey \in DOMAIN allData THEN allData[walletKey]
                   ELSE DefaultRecord
      dates1    == IF Includes(userData.dates, date) THEN userData.dates
                   ELSE SortAsc(Append(userData.dates, date))
      saved     == [dates      |-> dates1,
                    streak     |-> calculateStreak(dates1, now),
                    total      |-> Len(dates1),
                    lastDate   |-> date,
                    signatures |-> (date :> signature) @@ userData.signatures]
  IN  (walletKey :> saved) @@ allData

\* ------------------------------------------------------------------ state
\* the harnesses of the pure functions: a date list, a clock and
\* calculateStreak of them; getProvider() of the environment as classified
VARIABLES inDates, inToday, outStreak, outProvider, harnessPc

harnessVars == <<inDates, inToday, outStreak, outProvider, harnessPc>>

\* the app
VARIABLES
  clock,               \* the real-world day (UTC)
  env,                 \* what the page runs in: host runtime, wallets, URL
  store,               \* localStorage['base_checkins'], parsed
  storageParses,       \* ... or FALSE when it is not the JSON the program wrote
  savedWallet,         \* localStorage['connected_wallet']
  currentWallet,       \* session: the active signer identity
  currentProvider,     \* session: the cached provider handle
  farcasterSdk,        \* the SDK object loadFarcasterSdk() keeps
                       \* (isConnected is written and never read: left out)
  isInFarcasterFrame,
  listeners,           \* setupEventListeners() has run
  screen,              \* the active screen
  checkinBtnDisabled,
  connectBtnDisabled,
  view,                \* the streak and total last rendered
  initPc,              \* where init() is
  connectOp,           \* the pending handleConnect(), if any
  checkins,            \* the pending handleCheckIn() invocations (a bag)
  event                \* what the latest step did (alerts, commits)

appVars == <<clock, env, store, storageParses, savedWallet, currentWallet,
             currentProvider, farcasterSdk,
             isInFarcasterFrame, listeners, screen,
             checkinBtnDisabled, connectBtnDisabled, view, initPc, connectOp,
             checkins, event>>

\* What the page runs in: the host runtime's SDK and its answers, the browser,
\* and the URL.
\*   windowSdk            window.farcasterSdk is set (by the page's inline
\*                        script) before init() runs
\*   sdk                  loadFarcasterSdk() yields an SDK object
\*   isInMiniApp          how sdk.isInMiniApp() settles ("absent": no such
\*                        function; "never": it does not settle)
\*   top                  window.top is window.self, is another window, or
\*                        reading it throws (cross-origin)
\*   ready                how sdk.actions.ready() settles
\*   context              how sdk.context settles
\*   getEthereumProvider  how sdk.wallet.getEthereumProvider() settles
\*   ethProvider          sdk.wallet.ethProvider is present
\*   ethereum             window.ethereum is present
\*   frameParam           the URL carries a frame-identifying parameter
\*                        (fc_frame, fid)
\*   user                 the ?user= query parameter
Envs ==
 {e \in
  [windowSdk : BOOLEAN,
   sdk : BOOLEAN,
   isInMiniApp : {"true", "false", "never", "throws", "absent"},
   top : {"self", "other", "throws"},
   ready : {"ok", "never", "throws", "absent"},
   context : {"answers", "never"},
   getEthereumProvider : {"provider", "null", "never", "throws", "absent"},
   ethProvider : BOOLEAN,
   ethereum : BOOLEAN,
   frameParam : BOOLEAN,
   user : {NoWallet, <<"0", "x", "a">>}] : e.windowSdk => e.sdk}

\* a browser tab of its own, with no SDK, no wallet extension and no parameter
BareBrowser ==
  [windowSdk |-> FALSE, sdk |-> FALSE, isInMiniApp |-> "absent", top |-> "self",
   ready |-> "absent", context |-> "answers", getEthereumProvider |-> "absent",
   ethProvider |-> FALSE, ethereum |-> FALSE, frameParam |-> FALSE,
   user |-> NoWallet]

\* the page in a browser tab of its own
PageEnvs ==
  {[BareBrowser EXCEPT !.ethereum = x, !.user = u] :
     x \in BOOLEAN, u \in {NoWallet, <<"0", "x", "a">>}}

\* the page embedded by a host that answers the embedding query
FrameEnvs ==
  {e \in Envs :
     /\ e.windowSdk /\ e.isInMiniApp = "true" /\ e.top = "other"
     /\ ~e.frameParam
     /\ e.ready \in {"ok", "never"}
     /\ e.getEthereumProvider \in {"provider", "never"}
     /\ e.getEthereumProvider = "provider" => e.ethProvider}

\* loadFarcasterSdk(): what it leaves in farcasterSdk, the SDK object or, the
\* import having failed, false
loadFarcasterSdk(e) == IF e.sdk THEN "sdk" ELSE "false"

\* withTimeout(promise, ms, fallback): what awaiting it gives, the promise
\* settling as outcome or not at all
withTimeout(outcome, fallback) == IF outcome = "never" THEN fallback ELSE outcome

\* mutant of detectMiniApp: a cross-origin failure is read as "not embedded"
detectMiniAppThrowIsFalse(e) ==
  LET result == IF e.sdk /\ e.isInMiniApp # "absent"
                THEN withTimeout(e.isInMiniApp, "null") ELSE "null"
  IN  IF result \in {"true", "false"} THEN result = "true"
      ELSE e.top = "other"

\* mutant of detectMiniApp: without a definite answer the page counts as not
\* embedded, the iframe test being skipped when the SDK has the query
detectMiniAppTimeoutIsFalse(e) ==
  LET result == IF e.sdk /\ e.isInMiniApp # "absent"
                THEN withTimeout(e.isInMiniApp, "null") ELSE "null"
  IN  IF result \in {"true", "false"} THEN result = "true"
      ELSE IF e.sdk /\ e.isInMiniApp # "absent" THEN FALSE
      ELSE e.top # "self"

\* detectMiniApp(): a rejection of sdk.isInMiniApp() is caught, and like the
\* timeout's null it leads to the iframe test
detectMiniApp(e) ==
  LET result == IF e.sdk /\ e.isInMiniApp # "absent"
                THEN withTimeout(e.isInMiniApp, "null") ELSE "null"
  IN  IF result \in {"true", "false"} THEN result = "true"
      ELSE e.top # "self"

\* callFarcasterReady() settles
ReadySettles(inFrame, e) ==
  ~(inFrame /\ e.sdk /\ e.ready = "never")

\* mutant of profileUser: the ?user= parameter is not looked at
profileUserIgnored(e) == NoWallet

\* urlParams.get('user')
profileUser(e) == e.user

\* the streak and total the page shows (0 and 0 in the markup)
NoView == [streak |-> 0, total |-> 0]

NoOp == [pc |-> "idle", today |-> NoDate, wallet |-> NoWallet, provider |-> "none"]

Ev(op, wallet, date, sig, dup) ==
  [op |-> op, wallet |-> wallet, date |-> date, sig |-> sig, dup |-> dup]

Quiet(op) == Ev(op, NoWallet, NoDate, NoSig, FALSE)

\* mutant of getFarcasterProvider: the handshake is awaited without a timeout
getFarcasterProviderNoTimeout(inFrame, e) ==
  IF ~inFrame \/ ~e.sdk THEN "none"
  ELSE IF e.getEthereumProvider # "absent"
       THEN LET provider == e.getEthereumProvider
            IN  IF provider = "provider" THEN "farcaster"
                ELSE IF provider = "never" THEN "never" ELSE "none"
       ELSE IF e.ethProvider THEN "farcaster" ELSE "none"

\* getFarcasterProvider(): the host's wallet provider, "none" for null, "never"
\* when the call does not settle; a rejection is caught and gives null
getFarcasterProvider(inFrame, e) ==
  IF ~inFrame \/ ~e.sdk THEN "none"
  ELSE IF e.getEthereumProvider # "absent"
       THEN LET provider == withTimeout(e.getEthereumProvider, "null")
            IN  IF provider = "provider" THEN "farcaster"
                ELSE IF provider = "never" THEN "never" ELSE "none"
       ELSE IF e.ethProvider THEN "farcaster" ELSE "none"

\* mutant of getProvider: the injected wallet is preferred inside a frame
getProviderInjectedFirst(inFrame, e) ==
  IF e.ethereum THEN "injected"
  ELSE IF ~inFrame THEN "none" ELSE getFarcasterProvider(inFrame, e)

\* mutant of getProvider: the host's provider is asked for outside a frame too
getProviderBridgeAnywhere(inFrame, e) ==
  IF getFarcasterProvider(TRUE, e) # "none"
  THEN getFarcasterProvider(TRUE, e)
  ELSE IF e.ethereum THEN "injected" ELSE "none"

\* getProvider(): the provider it returns, "none" when it throws, "never" when
\* it does not settle
getProvider(inFrame, e) ==
  IF ~inFrame
  THEN IF e.ethereum THEN "injected" ELSE "none"
  ELSE IF getFarcasterProvider(inFrame, e) # "none"
       THEN getFarcasterProvider(inFrame, e)
       ELSE IF e.ethereum THEN "injected" ELSE "none"

\* updateDashboard(): the stats it renders and the state it leaves the
\* check-in button in; nothing changes when no wallet is held
DashboardView(allData, wallet, now, old) ==
  IF wallet = NoWallet THEN old
  ELSE [streak |-> getUserData(allData, wallet).streak,
        total  |-> getUserData(allData, wallet).total]

DashboardButton(allData, wallet, now, old) ==
  IF wallet = NoWallet THEN old
  ELSE Includes(getUserData(allData, wallet).dates, getTodayString(now))

\* showProfileScreen(wallet)
ProfileView(allData, wallet, now) ==
  [streak |-> getUserData(allData, wallet).streak,
   total  |-> getUserData(allData, wallet).total]

SessionStart ==
  /\ currentWallet = NoWallet
  /\ currentProvider = "none"
  /\ farcasterSdk = "null"
  /\ isInFarcasterFrame = FALSE
  /\ listeners = FALSE
  /\ screen = "connect"
  /\ checkinBtnDisabled = FALSE
  /\ connectBtnDisabled = FALSE
  /\ view = NoView
  /\ initPc = "start"
  /\ connectOp = NoOp
  /\ checkins = EmptyBag

AppInit ==
  /\ clock = FirstDay
  /\ env \in Envs
  /\ store = <<>>
  /\ storageParses \in BOOLEAN
  /\ savedWallet = NoWallet
  /\ SessionStart
  /\ event = Quiet("load")

\* ------------------------------------------------------------------ init()
\* From DOMContentLoaded to init()'s first wait that handlers can interleave
\* with: environment detection, the ready announcement, the profile view, the
\* listeners, and the restore of a saved session.  A getUserData() that throws
\* on malformed storage is caught by init()'s own try block.
InitStart ==
  /\ initPc = "start"
  /\ farcasterSdk' = loadFarcasterSdk(env)
  /\ isInFarcasterFrame' = detectMiniApp(env)
  /\ IF ~ReadySettles(detectMiniApp(env), env)
     THEN \* await sdk.actions.ready() does not return
          /\ initPc' = "ready"
          /\ event' = Quiet("init-waits")
          /\ UNCHANGED <<listeners, currentWallet, currentProvider, screen,
                         view,
                         checkinBtnDisabled>>
     ELSE IF profileUser(env) # NoWallet
     THEN /\ screen' = "profile"
          /\ view' = IF storageParses
                     THEN ProfileView(store, profileUser(env), clock) ELSE view
          /\ initPc' = "done"
          /\ event' = Quiet("init")
          /\ UNCHANGED <<listeners, currentWallet, currentProvider,
                         checkinBtnDisabled>>
     ELSE /\ listeners' = TRUE
          /\ event' = Quiet("init")
          /\ IF savedWallet # NoWallet
             THEN /\ currentWallet' = savedWallet
                  /\ IF detectMiniApp(env)
                     THEN /\ initPc' = "restore"
                          /\ UNCHANGED <<currentProvider, screen, view,
                                         checkinBtnDisabled>>
                     ELSE /\ currentProvider' =
                               IF getProvider(FALSE, env) # "none"
                               THEN getProvider(FALSE, env) ELSE currentProvider
                          /\ screen' = "dashboard"
                          /\ view' =
                               IF storageParses
                               THEN DashboardView(store, savedWallet, clock, view)
                               ELSE view
                          /\ checkinBtnDisabled' =
                               IF storageParses
                               THEN DashboardButton(store, savedWallet, clock,
                                                    checkinBtnDisabled)
                               ELSE checkinBtnDisabled
                          /\ initPc' = "done"
             ELSE /\ initPc' = IF detectMiniApp(env) THEN "context" ELSE "done"
                  /\ UNCHANGED <<currentWallet, currentProvider, screen, view,
                                 checkinBtnDisabled>>
  /\ UNCHANGED <<clock, env, store, storageParses, savedWallet,
                 connectBtnDisabled, connectOp, checkins>>
  /\ UNCHANGED harnessVars

\* init(): getProvider() of the session restore has settled (in a frame)
InitRestore ==
  /\ initPc = "restore"
  /\ currentProvider' =
       IF getProvider(isInFarcasterFrame, env) # "none"
       THEN getProvider(isInFarcasterFrame, env) ELSE currentProvider
  /\ screen' = "dashboard"
  /\ view' = IF storageParses
             THEN DashboardView(store, currentWallet, clock, view) ELSE view
  /\ checkinBtnDisabled' =
       IF storageParses
       THEN DashboardButton(store, currentWallet, clock, checkinBtnDisabled)
       ELSE checkinBtnDisabled
  /\ initPc' = "done"
  /\ event' = Quiet("init")
  /\ UNCHANGED <<clock, env, store, storageParses, savedWallet, currentWallet,
                 farcasterSdk, isInFarcasterFrame, listeners, connectBtnDisabled, connectOp,
                 checkins>>
  /\ UNCHANGED harnessVars

\* init(): getFarcasterContext() has settled, with the user's address or none;
\* it does not settle when the host never answers sdk.context
InitContext ==
  /\ initPc = "context"
  /\ env.sdk => env.context # "never"
  /\ \E address \in (IF env.sdk THEN ContextAddresses ELSE {}) \cup {NoWallet} :
       IF address # NoWallet
       THEN /\ currentWallet' = address
            /\ initPc' = "autoProvider"
       ELSE /\ initPc' = "done"
            /\ UNCHANGED currentWallet
  /\ event' = Quiet("init")
  /\ UNCHANGED <<clock, env, store, storageParses, savedWallet, currentProvider,
                 farcasterSdk, isInFarcasterFrame, listeners, screen, checkinBtnDisabled,
                 connectBtnDisabled, view, connectOp, checkins>>
  /\ UNCHANGED harnessVars

\* init(): getProvider() of the auto-connect has settled
InitAutoProvider ==
  /\ initPc = "autoProvider"
  /\ currentProvider' =
       IF getProvider(isInFarcasterFrame, env) # "none"
       THEN getProvider(isInFarcasterFrame, env) ELSE currentProvider
  /\ savedWallet' = StoredString(currentWallet)
  /\ screen' = "dashboard"
  /\ view' = IF storageParses
             THEN DashboardView(store, currentWallet, clock, view) ELSE view
  /\ checkinBtnDisabled' =
       IF storageParses
       THEN DashboardButton(store, currentWallet, clock, checkinBtnDisabled)
       ELSE checkinBtnDisabled
  /\ initPc' = "done"
  /\ event' = Quiet("init")
  /\ UNCHANGED <<clock, env, store, storageParses, currentWallet,
                 farcasterSdk, isInFarcasterFrame, listeners, connectBtnDisabled, connectOp,
                 checkins>>
  /\ UNCHANGED harnessVars

\* ------------------------------------------------------- handleConnect()
\* click on the connect button, up to the first wait
ConnectStart ==
  /\ listeners /\ screen = "connect" /\ ~connectBtnDisabled
  /\ connectOp.pc = "idle"
  /\ IF isInFarcasterFrame
     THEN \* getFarcasterProvider() waits for the host SDK
          /\ connectOp' = [NoOp EXCEPT !.pc = "provider"]
          /\ connectBtnDisabled' = TRUE
          /\ event' = Quiet("connect")
     ELSE IF getProvider(FALSE, env) # "none"
          THEN /\ connectOp' = [NoOp EXCEPT !.pc = "accounts",
                                            !.provider = getProvider(FALSE, env)]
               /\ connectBtnDisabled' = TRUE
               /\ event' = Quiet("connect")
          ELSE \* getProvider() throws: alert, and finally re-enables the button
               /\ connectOp' = NoOp
               /\ connectBtnDisabled' = FALSE
               /\ event' = Quiet("alert-connect")
  /\ UNCHANGED <<clock, env, store, storageParses, savedWallet,
                 currentWallet, currentProvider,
                 farcasterSdk, isInFarcasterFrame, listeners, screen,
                 checkinBtnDisabled, view, initPc, checkins>>
  /\ UNCHANGED harnessVars

\* getProvider() has settled inside a frame
ConnectProvider ==
  /\ connectOp.pc = "provider"
  /\ IF getProvider(isInFarcasterFrame, env) # "none"
     THEN /\ connectOp' = [connectOp EXCEPT !.pc = "accounts",
                             !.provider = getProvider(isInFarcasterFrame, env)]
          /\ event' = Quiet("connect")
          /\ UNCHANGED connectBtnDisabled
     ELSE /\ connectOp' = NoOp
          /\ connectBtnDisabled' = FALSE
          /\ event' = Quiet("alert-connect")
  /\ UNCHANGED <<clock, env, store, storageParses, savedWallet,
                 currentWallet, currentProvider,
                 farcasterSdk, isInFarcasterFrame, listeners, screen,
                 checkinBtnDisabled, view, initPc, checkins>>
  /\ UNCHANGED harnessVars

\* eth_requestAccounts answered with at least one account
ConnectAccounts ==
  /\ connectOp.pc = "accounts"
  /\ \E account \in Accounts :
       /\ currentWallet' = account
       /\ savedWallet' = StoredString(account)
       /\ view' = IF storageParses
                  THEN DashboardView(store, account, clock, view) ELSE view
       /\ checkinBtnDisabled' =
            IF storageParses
            THEN DashboardButton(store, account, clock, checkinBtnDisabled)
            ELSE checkinBtnDisabled
  /\ currentProvider' = connectOp.provider
  /\ screen' = "dashboard"
  /\ connectOp' = NoOp
  /\ connectBtnDisabled' = FALSE
  \* updateDashboard() throwing on malformed storage is caught: alert
  /\ event' = IF storageParses THEN Quiet("connected") ELSE Quiet("alert-dashboard")
  /\ UNCHANGED <<clock, env, store, storageParses, farcasterSdk,
                 isInFarcasterFrame, listeners,
                 initPc, checkins>>
  /\ UNCHANGED harnessVars

\* mutant of ConnectRefused: the failure resets the session
ConnectRefusedForgets ==
  /\ connectOp.pc = "accounts"
  /\ connectOp' = NoOp
  /\ currentWallet' = NoWallet
  /\ currentProvider' = "none"
  /\ savedWallet' = NoWallet
  /\ connectBtnDisabled' = FALSE
  /\ event' = Quiet("alert-connect")
  /\ UNCHANGED <<clock, env, store, storageParses,
                 farcasterSdk, isInFarcasterFrame, listeners, screen,
                 checkinBtnDisabled, view, initPc, checkins>>
  /\ UNCHANGED harnessVars

\* eth_requestAccounts threw, or answered with no account
ConnectRefused ==
  /\ connectOp.pc = "accounts"
  /\ connectOp' = NoOp
  /\ connectBtnDisabled' = FALSE
  /\ event' = Quiet("alert-connect")
  /\ UNCHANGED <<clock, env, store, storageParses, savedWallet,
                 currentWallet, currentProvider,
                 farcasterSdk, isInFarcasterFrame, listeners, screen,
                 checkinBtnDisabled, view, initPc, checkins>>
  /\ UNCHANGED harnessVars

\* ---------------------------------------------------- handleDisconnect()
\* mutant of HandleDisconnect: the whole of localStorage is cleared
HandleDisconnectWipes ==
  /\ listeners /\ screen = "dashboard"
  /\ currentWallet' = NoWallet
  /\ currentProvider' = "none"
  /\ savedWallet' = NoWallet
  /\ store' = <<>>
  /\ screen' = "connect"
  /\ event' = Quiet("disconnect")
  /\ UNCHANGED <<clock, env, storageParses, farcasterSdk, isInFarcasterFrame,
                 listeners,
                 checkinBtnDisabled, connectBtnDisabled, view, initPc, connectOp,
                 checkins>>
  /\ UNCHANGED harnessVars

HandleDisconnect ==
  /\ listeners /\ screen = "dashboard"
  /\ currentWallet' = NoWallet
  /\ currentProvider' = "none"
  /\ savedWallet' = NoWallet
  /\ screen' = "connect"
  /\ event' = Quiet("disconnect")
  /\ UNCHANGED <<clock, env, store, storageParses, farcasterSdk,
                 isInFarcasterFrame, listeners,
                 checkinBtnDisabled, connectBtnDisabled, view, initPc, connectOp,
                 checkins>>
  /\ UNCHANGED harnessVars

\* ------------------------------------------------------- handleCheckIn()
\* sdk?.wallet?.ethProvider || currentProvider || window.ethereum
CheckInProvider ==
  IF isInFarcasterFrame /\ env.sdk /\ env.ethProvider THEN "farcaster"
  ELSE IF currentProvider # "none" THEN currentProvider
       ELSE IF env.ethereum THEN "injected" ELSE "none"

RECURSIVE SumTotals(_, _)
SumTotals(allData, keys) ==
  IF keys = {} THEN 0
  ELSE LET k == CHOOSE k \in keys : TRUE
       IN  Len(allData[k].dates) + SumTotals(allData, keys \ {k})

\* the check-ins recorded in the ledger, over all wallets
Recorded(allData) == SumTotals(allData, DOMAIN allData)

\* click on the check-in button, up to the signing request
CheckInStart ==
  /\ listeners /\ screen = "dashboard" /\ ~checkinBtnDisabled
  /\ BagCardinality(checkins) < MaxInFlight
  /\ Recorded(store) + BagCardinality(checkins) < MaxCheckIns
  /\ IF currentWallet = NoWallet
     THEN /\ event' = Quiet("checkin-nowallet")
          /\ UNCHANGED <<checkins, checkinBtnDisabled>>
     ELSE IF ~storageParses
     THEN \* getUserData() throws before the try block: the handler's promise
          \* rejects with nothing to catch it
          /\ event' = Quiet("unhandled")
          /\ UNCHANGED <<checkins, checkinBtnDisabled>>
     ELSE IF Includes(getUserData(store, currentWallet).dates, getTodayString(clock))
     THEN /\ event' = Ev("alert-already", currentWallet, getTodayString(clock),
                         NoSig, TRUE)
          /\ UNCHANGED <<checkins, checkinBtnDisabled>>
     ELSE IF CheckInProvider = "none"
     THEN \* throws 'No wallet provider available'; finally re-enables
          /\ event' = Quiet("alert-checkin")
          /\ checkinBtnDisabled' = FALSE
          /\ UNCHANGED checkins
     ELSE /\ checkins' = checkins (+) SetToBag({
                            [pc       |-> "sign",
                             today    |-> getTodayString(clock),
                             wallet   |-> currentWallet,
                             provider |-> CheckInProvider]})
          /\ checkinBtnDisabled' = TRUE
          /\ event' = Quiet("checkin")
  /\ UNCHANGED <<clock, env, store, storageParses, savedWallet,
                 currentWallet, currentProvider,
                 farcasterSdk, isInFarcasterFrame, listeners, screen,
                 connectBtnDisabled, view, initPc, connectOp>>
  /\ UNCHANGED harnessVars

\* mutant of CheckInSigned: the date committed is read anew at the commit
CheckInSignedFreshToday ==
  \E op \in BagToSet(checkins) :
    /\ op.pc = "sign"
    /\ checkins' = checkins (-) SetToBag({op})
    /\ checkinBtnDisabled' = FALSE
    /\ LET signature == Sign(Message(op.wallet, op.today))
       IN  IF currentWallet = NoWallet \/ ~storageParses
           THEN \* wallet.toLowerCase() or JSON.parse() throws inside
                \* saveCheckIn: caught, alert
                /\ event' = Quiet("alert-checkin")
                /\ UNCHANGED <<store, view>>
           ELSE /\ store' = saveCheckIn(store, currentWallet, getTodayString(clock),
                                     signature, clock)
                /\ view' = DashboardView(store', currentWallet, clock, view)
                /\ event' = Ev("commit", currentWallet, getTodayString(clock), signature,
                               Includes(getUserData(store, currentWallet).dates,
                                        getTodayString(clock)))
    /\ UNCHANGED <<clock, env, storageParses, savedWallet, currentWallet,
                   currentProvider,
                   farcasterSdk, isInFarcasterFrame, listeners, screen,
                   connectBtnDisabled, initPc, connectOp>>
    /\ UNCHANGED harnessVars

\* personal_sign answered with a signature: saveCheckIn, updateDashboard,
\* showStreakCard, and the finally block
CheckInSigned ==
  \E op \in BagToSet(checkins) :
    /\ op.pc = "sign"
    /\ checkins' = checkins (-) SetToBag({op})
    /\ checkinBtnDisabled' = FALSE
    /\ LET signature == Sign(Message(op.wallet, op.today))
       IN  IF currentWallet = NoWallet \/ ~storageParses
           THEN \* wallet.toLowerCase() or JSON.parse() throws inside
                \* saveCheckIn: caught, alert
                /\ event' = Quiet("alert-checkin")
                /\ UNCHANGED <<store, view>>
           ELSE /\ store' = saveCheckIn(store, currentWallet, op.today, signature, clock)
                /\ view' = DashboardView(store', currentWallet, clock, view)
                /\ event' = Ev("commit", currentWallet, op.today, signature,
                               Includes(getUserData(store, currentWallet).dates, op.today))
    /\ UNCHANGED <<clock, env, storageParses, savedWallet, currentWallet,
                   currentProvider,
                   farcasterSdk, isInFarcasterFrame, listeners, screen,
                   connectBtnDisabled, initPc, connectOp>>
    /\ UNCHANGED harnessVars

\* mutant of CheckInRejected: the check-in is recorded without a signature
CheckInRejectedRecords ==
  \E op \in BagToSet(checkins) :
    /\ op.pc = "sign"
    /\ currentWallet # NoWallet /\ storageParses
    /\ checkins' = checkins (-) SetToBag({op})
    /\ checkinBtnDisabled' = FALSE
    /\ store' = saveCheckIn(store, currentWallet, op.today, NoSig, clock)
    /\ event' = Quiet("alert-signing")
    /\ UNCHANGED <<clock, env, storageParses, savedWallet, currentWallet,
                   currentProvider, farcasterSdk, isInFarcasterFrame, listeners, screen,
                   connectBtnDisabled, view, initPc, connectOp>>
    /\ UNCHANGED harnessVars

\* personal_sign threw (rejected, failed) or answered with no signature
CheckInRejected ==
  \E op \in BagToSet(checkins) :
    /\ op.pc = "sign"
    /\ checkins' = checkins (-) SetToBag({op})
    /\ checkinBtnDisabled' = FALSE
    /\ event' = Quiet("alert-signing")
    /\ UNCHANGED <<clock, env, store, storageParses, savedWallet,
                   currentWallet, currentProvider,
                   farcasterSdk, isInFarcasterFrame, listeners, screen,
                   connectBtnDisabled, view, initPc, connectOp>>
    /\ UNCHANGED harnessVars

\* ----------------------------------------------------------- environment
\* midnight (UTC) passes
Tick ==
  /\ clock < LastDay
  /\ clock' = clock + 1
  /\ event' = Quiet("tick")
  /\ UNCHANGED <<env, store, storageParses, savedWallet, currentWallet,
                 currentProvider,
                 farcasterSdk, isInFarcasterFrame, listeners, screen,
                 checkinBtnDisabled, connectBtnDisabled, view, initPc, connectOp,
                 checkins>>
  /\ UNCHANGED harnessVars

\* The page is loaded again, with or without the ?user= parameter: the session
\* and every pending handler are gone, localStorage stays.
Reload ==
  /\ initPc = "done"
  /\ env' \in {[env EXCEPT !.user = u] : u \in {NoWallet, <<"0", "x", "a">>}}
  /\ currentWallet' = NoWallet
  /\ currentProvider' = "none"
  /\ farcasterSdk' = "null"
  /\ isInFarcasterFrame' = FALSE
  /\ listeners' = FALSE
  /\ screen' = "connect"
  /\ checkinBtnDisabled' = FALSE
  /\ connectBtnDisabled' = FALSE
  /\ view' = NoView
  /\ initPc' = "start"
  /\ connectOp' = NoOp
  /\ checkins' = EmptyBag
  /\ event' = Quiet("load")
  /\ UNCHANGED <<clock, store, storageParses, savedWallet>>
  /\ UNCHANGED harnessVars

\* the steps of the page opened in a browser of its own
Next ==
  \/ InitStart
  \/ ConnectStart \/ ConnectAccounts \/ ConnectRefused
  \/ HandleDisconnect
  \/ CheckInStart \/ CheckInSigned \/ CheckInRejected
  \/ Tick \/ Reload

\* the steps of the page embedded in a host frame
NextFrame ==
  \/ InitStart \/ InitRestore \/ InitContext \/ InitAutoProvider
  \/ ConnectStart \/ ConnectProvider \/ ConnectAccounts \/ ConnectRefused
  \/ HandleDisconnect
  \/ CheckInStart \/ CheckInSigned \/ CheckInRejected
  \/ Reload

\* --------------------------------------------------- streak harness state
\* calculateStreak applied to a bounded family of date lists and clocks
\* all duplicate-free lists of at most n elements of S
RECURSIVE DistinctSeqs(_, _)
DistinctSeqs(S, n) ==
  IF n = 0 THEN {<<>>}
  ELSE LET shorter == DistinctSeqs(S, n - 1)
       IN  shorter \cup
           {Append(p[1], p[2]) : p \in
              {p \in shorter \X S : \A i \in DOMAIN p[1] : p[1][i] # p[2]}}

HarnessIdle ==
  /\ inDates = <<>>
  /\ inToday = FirstDay
  /\ outStreak = 0
  /\ outProvider = "none"
  /\ harnessPc = "off"

InitStreak ==
  /\ AppInit
  /\ env = BareBrowser
  /\ storageParses
  /\ inDates \in {[i \in DOMAIN q |-> DateString(q[i])] : q \in DistinctSeqs(InputDays, MaxLen)}
  /\ inToday \in Days
  /\ outStreak = 0
  /\ outProvider = "none"
  /\ harnessPc = "input"

ApplyStreak ==
  /\ harnessPc = "input"
  /\ outStreak' = calculateStreak(inDates, inToday)
  /\ harnessPc' = "done"
  /\ UNCHANGED <<inDates, inToday, outProvider>>
  /\ UNCHANGED appVars

NextStreak == ApplyStreak

\* ------------------------------------------------- resolver harness state
\* detectMiniApp() and then getProvider(), in every environment
InitResolve ==
  /\ AppInit
  /\ storageParses
  /\ inDates = <<>>
  /\ inToday = FirstDay
  /\ outStreak = 0
  /\ outProvider = "none"
  /\ harnessPc = "host"

\* mutant of Classify: the classification also picks the session's provider
ClassifyConnects ==
  /\ harnessPc = "host"
  /\ farcasterSdk' = loadFarcasterSdk(env)
  /\ isInFarcasterFrame' = detectMiniApp(env)
  /\ harnessPc' = "classified"
  /\ currentProvider' = IF detectMiniApp(env) /\ env.sdk /\ env.ethProvider
                        THEN "farcaster" ELSE "none"
  /\ UNCHANGED <<clock, env, store, storageParses, savedWallet, currentWallet,
                 listeners, screen, checkinBtnDisabled,
                 connectBtnDisabled, view, initPc, connectOp, checkins, event>>
  /\ UNCHANGED <<inDates, inToday, outStreak, outProvider>>

\* isInFarcasterFrame = await detectMiniApp()
Classify ==
  /\ harnessPc = "host"
  /\ farcasterSdk' = loadFarcasterSdk(env)
  /\ isInFarcasterFrame' = detectMiniApp(env)
  /\ harnessPc' = "classified"
  /\ UNCHANGED <<clock, env, store, storageParses, savedWallet, currentWallet,
                 currentProvider, listeners, screen, checkinBtnDisabled,
                 connectBtnDisabled, view, initPc, connectOp, checkins, event>>
  /\ UNCHANGED <<inDates, inToday, outStreak, outProvider>>

\* await getProvider()
Resolve ==
  /\ harnessPc = "classified"
  /\ outProvider' = getProvider(isInFarcasterFrame, env)
  /\ harnessPc' = "resolved"
  /\ UNCHANGED <<inDates, inToday, outStreak>>
  /\ UNCHANGED appVars

NextResolve == Classify \/ Resolve

vars == <<appVars, harnessVars>>

SpecStreak == InitStreak /\ [][NextStreak]_vars

SpecResolve == InitResolve /\ [][NextResolve]_vars

\* the page opened in a browser of its own (detectMiniApp() resolves to false)
Init == AppInit /\ env \in PageEnvs /\ HarnessIdle

Spec == Init /\ [][Next]_vars

\* the page embedded in a host frame, within one real-world day
InitFrame == AppInit /\ env \in FrameEnvs /\ HarnessIdle

SpecFrame == InitFrame /\ [][NextFrame]_vars

\* ... where init() runs on whenever it can: each of its continuations is
\* scheduled as soon as the promise it awaits settles
SpecFrameLive ==
  /\ SpecFrame
  /\ WF_vars(InitStart) /\ WF_vars(InitRestore)
  /\ WF_vars(InitContext) /\ WF_vars(InitAutoProvider)

\* ================================================================ claims
\* the real-world day a date string names
DayOf(str) == CHOOSE n \in (FirstDay - 2) .. (LastDay + 2) : DateString(n) = str

DaySet(dates) == {DayOf(dates[i]) : i \in DOMAIN dates}

Latest(S) == CHOOSE m \in S : \A x \in S : x <= m

\* S is a run of consecutive days
IsRun(S) == S = (Latest(S) - Cardinality(S) + 1) .. Latest(S)

\* the length of the longest run of consecutive days of S that ends at its latest
TailRun(S) ==
  CHOOSE n \in 1 .. Cardinality(S) :
    /\ (Latest(S) - n + 1) .. Latest(S) \subseteq S
    /\ (Latest(S) - n) \notin S

Alive(S, today) == Latest(S) = today \/ Latest(S) = today - 1

\* C1 (as claimed): a commit for a (wallet, date) the record already holds is
\* rejected as already checked in and leaves the ledger as it was.
C1_DuplicateCommitRejected ==
  [][event'.dup => (event'.op = "alert-already" /\ store' = store)]_vars

C5_TotalCountsDates ==
  \A k \in DOMAIN store :
    /\ store[k].total = Cardinality({store[k].dates[i] : i \in DOMAIN store[k].dates})
    /\ Len(store[k].dates) = Cardinality({store[k].dates[i] : i \in DOMAIN store[k].dates})

C5_Witness ==
  /\ event.op = "commit"
  /\ event.dup
  /\ getUserData(store, event.wallet).total = 2

\* C6: for every record of the ledger, the dates that have a signature are
\* exactly the dates of the record.
C6_SignaturesMatchDates ==
  \A k \in DOMAIN store :
    DOMAIN store[k].signatures = {store[k].dates[i] : i \in DOMAIN store[k].dates}

C6_Witness ==
  /\ event.op = "commit"
  /\ event.date # getTodayString(clock)
  /\ Len(getUserData(store, event.wallet).dates) = 2

\* the wallet whose record the active screen has just rendered
RenderedWallet ==
  IF screen = "profile" THEN env.user
  ELSE IF screen = "dashboard" THEN currentWallet ELSE NoWallet

\* C7 (as claimed): whenever a screen has just rendered a record, the streak it
\* shows is calculateStreak of the record's dates at the real-world date of
\* the read.
C7_ShownStreakIsRecomputed ==
  (/\ event.op \in {"init", "connected", "commit"}
   /\ RenderedWallet # NoWallet)
  => view.streak = calculateStreak(getUserData(store, RenderedWallet).dates, clock)

SameAccount(w1, w2) == toLowerCase(w1) = toLowerCase(w2)

\* C8: two spellings of an address that differ in letter case only read the
\* same record, and a check-in committed under one spelling is in the record
\* read under the other, where the duplicate test of handleCheckIn finds it.
C8_CaseInsensitive ==
  /\ \A w1, w2 \in Addresses :
       SameAccount(w1, w2) => getUserData(store, w1) = getUserData(store, w2)
  /\ event.op = "commit" =>
       \A w \in Addresses :
         SameAccount(w, event.wallet) =>
           Includes(getUserData(store, w).dates, event.date)

C8_Witness ==
  /\ event.op = "commit"
  /\ event.wallet = <<"0", "x", "A">>
  /\ Includes(getUserData(store, <<"0", "x", "a">>).dates, event.date)
  /\ getUserData(store, <<"0", "x", "a">>).signatures[event.date] = event.sig

Ascending(dates) ==
  \A i, j \in DOMAIN dates : i < j => StrLess(dates[i], dates[j])

\* C9: right after saveCheckIn(w, d, s) the record of w holds s as the
\* signature of d, holds d among its dates, has lastDate d, and its dates are
\* in ascending order.
C9_RoundTrip ==
  event.op = "commit" =>
    LET record == getUserData(store, event.wallet)
    IN  /\ Includes(record.dates, event.date)
        /\ event.date \in DOMAIN record.signatures
        /\ record.signatures[event.date] = event.sig
        /\ record.lastDate = event.date
        /\ Ascending(record.dates)

\* a commit of a date older than one the record already held
C9_Witness ==
  /\ event.op = "commit"
  /\ ~event.dup
  /\ LET record == getUserData(store, event.wallet)
     IN  /\ Len(record.dates) = 2
         /\ record.dates[1] = event.date
         /\ record.signatures[event.date] = event.sig

ScenarioDates ==
  <<DateString(FirstDay), DateString(FirstDay + 1), DateString(FirstDay + 3)>>

\* C10: on day 4, a record whose check-ins are those of day 1, day 2 and
\* day 4 has streak 1 and total 3.
C10_SkipScenario ==
  \A k \in DOMAIN store :
    (clock = FirstDay + 3 /\ store[k].dates = ScenarioDates)
    => /\ store[k].streak = 1
       /\ store[k].total = 3
       /\ calculateStreak(store[k].dates, clock) = 1

C10_Witness ==
  /\ clock = FirstDay + 3
  /\ event.op = "commit"
  /\ event.date = DateString(FirstDay + 3)
  /\ getUserData(store, event.wallet).dates = ScenarioDates
  /\ getUserData(store, event.wallet).streak = 1
  /\ view = [streak |-> 1, total |-> 3]

\* C11 (as claimed): while a check-in awaits its signature the check-in button
\* is disabled, and no two check-ins of one wallet are pending together.
C11_OneCheckInInFlight ==
  /\ checkins # EmptyBag => checkinBtnDisabled
  /\ \A op1, op2 \in BagToSet(checkins) :
       SameAccount(op1.wallet, op2.wallet) =>
         (op1 = op2 /\ CopiesIn(op1, checkins) = 1)

\* C12: a step that ends a pending check-in without committing it (the signing
\* request failed, was rejected or gave no signature) leaves the whole ledger
\* as it was and raises the failure alert.
C12_FailedSigningRecordsNothing ==
  [][(/\ BagCardinality(checkins') < BagCardinality(checkins)
      /\ event'.op \notin {"commit", "load"})
     => (/\ store' = store
         /\ event'.op \in {"alert-signing", "alert-checkin"})]_vars

C12_Witness ==
  /\ event.op = "alert-signing"
  /\ store # <<>>
  /\ ~checkinBtnDisabled
  /\ currentWallet # NoWallet
  /\ ~Includes(getUserData(store, currentWallet).dates, getTodayString(clock))

\* the host's wallet bridge is available: the handshake hands out a provider
\* or, the SDK having no handshake, the SDK holds one
BridgeAvailable(e) ==
  /\ e.sdk
  /\ \/ e.getEthereumProvider = "provider"
     \/ e.getEthereumProvider = "absent" /\ e.ethProvider

InjectedOrNone(e) == IF e.ethereum THEN "injected" ELSE "none"

\* C13: outside a frame getProvider() returns the injected wallet when there is
\* one and throws otherwise, whatever the host SDK holds or would answer.
C13_StandaloneInjectedOnly ==
  (harnessPc = "resolved" /\ ~isInFarcasterFrame) =>
    /\ outProvider = InjectedOrNone(env)
    /\ \A k, p \in BOOLEAN :
         \A g \in {"provider", "null", "never", "throws", "absent"} :
           getProvider(FALSE, [env EXCEPT !.sdk = k, !.ethProvider = p,
                                          !.getEthereumProvider = g])
             = outProvider

C13_Witness ==
  /\ harnessPc = "resolved"
  /\ ~isInFarcasterFrame
  /\ env.sdk /\ env.getEthereumProvider = "provider" /\ env.ethProvider
  /\ ~env.ethereum
  /\ outProvider = "none"

\* C14: inside a frame getProvider() returns the host's wallet bridge whenever
\* it is available, the injected wallet only when the bridge is not, and throws
\* only when there is neither.
C14_FrameOrder ==
  (harnessPc = "resolved" /\ isInFarcasterFrame) =>
    outProvider = IF BridgeAvailable(env) THEN "farcaster" ELSE InjectedOrNone(env)

C14_Witness ==
  /\ harnessPc = "resolved"
  /\ isInFarcasterFrame
  /\ BridgeAvailable(env)
  /\ env.ethereum
  /\ outProvider = "farcaster"

\* C15: getProvider() settles in every environment; when the host never
\* answers the handshake the bridge counts as unavailable and the result is
\* the injected wallet or the thrown error.
C15_HandshakeBounded ==
  harnessPc = "resolved" =>
    /\ outProvider # "never"
    /\ (isInFarcasterFrame /\ env.sdk /\ env.getEthereumProvider = "never")
         => outProvider = InjectedOrNone(env)

C15_Witness ==
  /\ harnessPc = "resolved"
  /\ isInFarcasterFrame /\ env.sdk /\ env.getEthereumProvider = "never"
  /\ env.ethereum
  /\ outProvider = "injected"

\* C16 (as claimed): a check-in sends its signing request to the provider the
\* session has cached or, none being cached, to the one getProvider() resolves.
C16_SignsWithSessionProvider ==
  [][\A op \in BagToSet(checkins') :
       CopiesIn(op, checkins') > CopiesIn(op, checkins) =>
         op.provider = IF currentProvider # "none" THEN currentProvider
                       ELSE getProvider(isInFarcasterFrame, env)]_vars

\* C17 (as claimed): with a ledger in storage that does not parse, no handler
\* ends in an error nothing catches.
C17_MalformedStorageTolerated ==
  ~storageParses => event.op # "unhandled"

\* C18: while the page has the ?user= parameter no step changes the ledger, the
\* saved wallet, the session's wallet or provider, nor starts a connect or a
\* check-in, whatever the user clicks.
C18_ProfileIsReadOnly ==
  [][env.user # NoWallet =>
       /\ store' = store
       /\ savedWallet' = savedWallet
       /\ currentWallet' = currentWallet
       /\ currentProvider' = currentProvider
       /\ connectOp' = connectOp
       /\ checkins' = checkins]_vars

C18_Witness ==
  /\ env.user # NoWallet
  /\ event.op = "init"
  /\ screen = "profile"
  /\ ~listeners
  /\ savedWallet # NoWallet
  /\ store # <<>>
  /\ currentWallet = NoWallet

\* C19 (as claimed): init(), once started, finishes.
C19_InitTerminates == (initPc = "start") ~> (initPc = "done")

\* C20: with no SDK (or an SDK without the embedding query) and a window.top
\* whose inspection throws, detectMiniApp() answers true.
C20_CrossOriginIsFrame ==
  (/\ harnessPc # "host"
   /\ ~env.sdk \/ env.isInMiniApp = "absent"
   /\ env.top = "throws")
  => isInFarcasterFrame

C20_Witness ==
  /\ harnessPc = "classified"
  /\ ~env.sdk
  /\ env.top = "throws"
  /\ isInFarcasterFrame

\* the set of the dates of a list
DatesOf(dates) == {dates[i] : i \in DOMAIN dates}

\* C21: no step removes a record or a date of a record, or lowers a total;
\* a disconnect changes the session wallet, the provider handle, the saved
\* wallet and the screen, and nothing else.
C21_LedgerOnlyGrows ==
  [][/\ \A k \in DOMAIN store :
          /\ k \in DOMAIN store'
          /\ DatesOf(store[k].dates) \subseteq DatesOf(store'[k].dates)
          /\ store'[k].total >= store[k].total
     /\ event'.op = "disconnect" =>
          /\ currentWallet' = NoWallet
          /\ currentProvider' = "none"
          /\ savedWallet' = NoWallet
          /\ UNCHANGED <<clock, env, store, storageParses, farcasterSdk,
                         isInFarcasterFrame, listeners, checkinBtnDisabled,
                         connectBtnDisabled, view, initPc, connectOp, checkins>>
    ]_vars

C21_Witness ==
  /\ event.op = "disconnect"
  /\ currentWallet = NoWallet
  /\ savedWallet = NoWallet
  /\ \E k \in DOMAIN store : store[k].total = 2

\* C22 (as claimed): with window.farcasterSdk present detectMiniApp() answers
\* true, whatever sdk.isInMiniApp() or the iframe test report.
C22_CapabilityObjectDecides ==
  (harnessPc # "host" /\ env.windowSdk) => isInFarcasterFrame

\* sdk.isInMiniApp() answers with a boolean before the timeout
DefiniteAnswer(e) == e.sdk /\ e.isInMiniApp \in {"true", "false"}

\* C23: a boolean answer of sdk.isInMiniApp() is the classification; with a
\* query that does not answer in time, or throws, the classification is that
\* of the iframe test.
C23_QueryDecidesOrFallsThrough ==
  harnessPc # "host" =>
    /\ DefiniteAnswer(env) => isInFarcasterFrame = (env.isInMiniApp = "true")
    /\ (env.sdk /\ env.isInMiniApp \in {"never", "throws"})
         => isInFarcasterFrame = (env.top # "self")

C23_Witness ==
  /\ harnessPc = "classified"
  /\ env.sdk /\ env.isInMiniApp = "never"
  /\ env.top = "other"
  /\ isInFarcasterFrame

\* C24 (as claimed): without a capability object and without a definite
\* answer, a page that is its own top-level context is classified as embedded
\* exactly when its URL carries a frame-identifying parameter.
C24_FrameParameterDecides ==
  (/\ harnessPc # "host"
   /\ ~env.windowSdk
   /\ ~DefiniteAnswer(env)
   /\ env.top = "self")
  => isInFarcasterFrame = env.frameParam

\* C25: the step that classifies the environment changes isInFarcasterFrame
\* (and the SDK object loadFarcasterSdk() keeps) and leaves the session's
\* wallet and provider, the saved wallet, the ledger and the page as they were.
C25_ClassifyLeavesSession ==
  [][harnessPc = "host" =>
       UNCHANGED <<currentWallet, currentProvider, savedWallet, store,
                   listeners, screen, view, checkinBtnDisabled,
                   connectBtnDisabled, connectOp, checkins>>]_vars

C25_Witness ==
  /\ harnessPc = "classified"
  /\ isInFarcasterFrame
  /\ farcasterSdk = "sdk"
  /\ env.ethProvider /\ env.ethereum
  /\ currentWallet = NoWallet
  /\ currentProvider = "none"

\* C26: a check-in starts with today's date, tested against the record, and
\* that same date is in the message signed and is the date committed, whatever
\* the real-world date is at the commit.
C26_OneToday ==
  [][/\ \A op \in BagToSet(checkins') :
          CopiesIn(op, checkins') > CopiesIn(op, checkins) =>
            /\ op.today = getTodayString(clock)
            /\ ~Includes(getUserData(store, currentWallet).dates, op.today)
     /\ event'.op = "commit" =>
          \E op \in BagToSet(checkins) :
            /\ checkins' = checkins (-) SetToBag({op})
            /\ event'.date = op.today
            /\ event'.sig = Sign(Message(op.wallet, op.today))
            /\ Includes(getUserData(store', event'.wallet).dates, op.today)
    ]_vars

C26_Witness ==
  /\ event.op = "commit"
  /\ ~event.dup
  /\ event.date # getTodayString(clock)
  /\ event.sig = Sign(Message(event.wallet, event.date))
  /\ getUserData(store, event.wallet).lastDate = event.date

\* C27 (as claimed): every signature in the record of a wallet, under a date,
\* was produced over the message that names that wallet and that date.
C27_SignatureNamesItsRecord ==
  \A k \in DOMAIN store :
    \A d \in DOMAIN store[k].signatures :
      /\ toLowerCase(store[k].signatures[d][1]) = k
      /\ store[k].signatures[d][2] = d

\* C28 (as claimed): right after a commit the stored streak of the record is
\* at least 1 and at most its total.
C28_StreakAfterCommit ==
  event.op = "commit" =>
    /\ getUserData(store, event.wallet).streak >= 1
    /\ getUserData(store, event.wallet).streak <= getUserData(store, event.wallet).total

\* C29: a handleConnect() that ends in its failure alert (no provider, the
\* account request threw or gave no account) leaves the session's wallet and
\* provider and the saved wallet as they were; one that got an account sets the
\* session's wallet and the saved wallet to it together.
C29_FailedConnectKeepsSession ==
  [][/\ event'.op = "alert-connect" =>
          UNCHANGED <<currentWallet, currentProvider, savedWallet>>
     /\ event'.op \in {"connected", "alert-dashboard"} =>
          /\ currentWallet' # NoWallet
          /\ savedWallet' = currentWallet'
     /\ event'.op = "connect" =>
          UNCHANGED <<currentWallet, currentProvider, savedWallet>>
    ]_vars

C29_Witness ==
  /\ event.op = "alert-connect"
  /\ currentWallet # NoWallet
  /\ savedWallet = NoWallet
  /\ connectOp = NoOp
  /\ ~connectBtnDisabled

\* C30 (as claimed): with no check-in pending and today's date in the record
\* of the connected wallet, the check-in button is disabled.
C30_CheckedInDisablesButton ==
  (/\ checkins = EmptyBag
   /\ screen = "dashboard"
   /\ currentWallet # NoWallet
   /\ storageParses
   /\ Includes(getUserData(store, currentWallet).dates, getTodayString(clock)))
  => checkinBtnDisabled

=============================================================================
